---- MODULE Spec2Model ----
(***************************************************************************)
(* rna-stat-manager: StatsService (src/src/index.js) and CounterService    *)
(* (src/unnamed/part_000), two clients of one Redis connection that keep   *)
(* namespaced counters and hash counters.                                  *)
(*                                                                         *)
(* Strings are sequences of atoms: ":" , "*" and "}" are the characters    *)
(* the code treats specially, every other atom is an opaque token without  *)
(* these characters.  Template literals are concatenations.                *)
(***************************************************************************)
EXTENDS Integers, Sequences, FiniteSets, TLC

(***************************************************************************)
(* Bounds of the model.                                                    *)
(***************************************************************************)
MaxCalls == 2
MaxPage == 2
MaxValue == 1

Calls == 1..MaxCalls

(***************************************************************************)
(* JavaScript values that flow through template literals and conditions.   *)
(***************************************************************************)
undefined == <<"#undefined">>
null == <<"#null">>

\* `${x}`
Str(x) == IF x = undefined THEN <<"undefined">>
          ELSE IF x = null THEN <<"null">>
          ELSE x

\* if (x)
Truthy(x) == x \notin {undefined, null, <<>>}

\* ioredis turns a null or undefined command argument into the empty string
toArg(x) == IF x \in {undefined, null} THEN <<>> ELSE x

\* key.includes('*')
includes(s, ch) == \E i \in 1..Len(s) : s[i] = ch

\* key.endsWith('*')
endsWith(s, ch) == Len(s) > 0 /\ s[Len(s)] = ch

\* Redis glob matching of MATCH: "*" stands for any run of characters
RECURSIVE globMatch(_, _)
globMatch(pat, s) ==
    IF pat = <<>> THEN s = <<>>
    ELSE IF Head(pat) = "*"
         THEN \/ globMatch(Tail(pat), s)
              \/ s # <<>> /\ globMatch(pat, Tail(s))
         ELSE s # <<>> /\ Head(s) = Head(pat) /\ globMatch(Tail(pat), Tail(s))

(***************************************************************************)
(* Configuration: the namespace of both services and the host name.        *)
(***************************************************************************)
SYSTEM == <<"sys">>
PRODUCT == <<"prod">>
ENVIRONMENT == <<"env">>
systemHost == <<"h0">>

(***************************************************************************)
(* StatsService key construction.                                          *)
(***************************************************************************)
statKeyPrefix == <<"app", ":">> \o SYSTEM \o <<":">> \o PRODUCT \o <<":">> \o ENVIRONMENT

\* The object a caller passes to namedStatKey / namedHashKey
KeyArgs(global, instanceurn, type, name, host) ==
    [global |-> global, instanceurn |-> instanceurn, type |-> type,
     name |-> name, host |-> host]

namedStatKey_noType(a) ==
    LET host == IF a.host = undefined THEN systemHost ELSE a.host
        base == statKeyPrefix \o <<":", "stat", ":">> \o Str(a.name)
    IN  IF a.global THEN base
        ELSE IF Truthy(a.instanceurn)
             THEN IF Truthy(host)
                  THEN base \o <<":">> \o Str(host) \o <<":">> \o Str(a.instanceurn)
                  ELSE base \o <<":">> \o Str(a.instanceurn)
             ELSE IF Truthy(host)
                  THEN base \o <<":">> \o Str(host)
                  ELSE base

namedStatKey(a) ==
    LET host == IF a.host = undefined THEN systemHost ELSE a.host
        typed == statKeyPrefix \o <<":", "stat", ":">> \o Str(a.type)
                     \o <<":">> \o Str(a.name)
    IN  IF a.global
        THEN IF Truthy(a.type)
             THEN typed
             ELSE statKeyPrefix \o <<":", "stat", ":">> \o Str(a.name)
        ELSE IF Truthy(a.instanceurn)
             THEN IF Truthy(host)
                  THEN typed \o <<":">> \o Str(host) \o <<":">> \o Str(a.instanceurn)
                  ELSE typed \o <<":">> \o Str(a.instanceurn)
             ELSE IF Truthy(host)
                  THEN typed \o <<":">> \o Str(host)
                  ELSE typed

\* Without a return statement the scoped branch yields undefined
namedHashKey(a) ==
    IF a.global THEN statKeyPrefix \o <<":">> \o Str(a.name) ELSE undefined

(***************************************************************************)
(* CounterService key construction.                                        *)
(***************************************************************************)
counterKeyPrefix == <<"app", ":">> \o SYSTEM \o <<":">> \o PRODUCT \o <<":">> \o ENVIRONMENT

\* `${this.counterKeyPrefix()}:cnt:${name}}` : the second brace is literal text
namedCounterKey(name) == counterKeyPrefix \o <<":", "cnt", ":">> \o Str(name) \o <<"}">>


(***************************************************************************)
(* Values.  Redis keeps strings and hashes; a client call settles with a   *)
(* JavaScript value.                                                       *)
(***************************************************************************)
\* the decimal string of the integer n
DecStr(n) == [t |-> "string", dec |-> n]
\* JSON.stringify({ value: v, setTime: new Date() })
JsonStr(v) == [t |-> "string", json |-> [value |-> v, setTime |-> "Date"]]
OkStr == [t |-> "string", lit |-> "OK"]
HashVal(h) == [t |-> "hash", h |-> h]
Num(n) == [n |-> n, t |-> "number"]
JNull == [t |-> "null"]
JUndef == [t |-> "undefined"]
\* the object hgetall yields: every field with the decimal string of its value
HashObj(h) == [t |-> "object", fields |-> [f \in DOMAIN h |-> DecStr(h[f])]]
ScanResult(count, results) == [t |-> "object", count |-> count, results |-> results]
Err(name) == [name |-> name, t |-> "error"]

Put(f, k, v) == [x \in DOMAIN f \cup {k} |-> IF x = k THEN v ELSE f[x]]
Drop(f, k) == [x \in DOMAIN f \ {k} |-> f[x]]

(***************************************************************************)
(* The state.                                                              *)
(***************************************************************************)
VARIABLES
    store,      \* Redis: key -> string or hash, for the keys that exist
    ttl,        \* Redis: key -> seconds, for the keys that carry an expiry
    queue,      \* commands written to the connection, not yet executed
    calls,      \* one record per call of a service method
    log,        \* what Redis has executed or evicted, in order
    isCluster,  \* CounterService.isCluster
    probe       \* arguments and results of the key functions called directly

vars == <<store, ttl, queue, calls, log, isCluster, probe>>

IdleCall == [count |-> 0, results |-> <<>>, op |-> "none", arg |-> <<>>, pc |-> "idle",
             status |-> "none", val |-> JUndef, key |-> <<>>, amount |-> 0,
             expiry |-> 0, field |-> <<>>, fast |-> FALSE, wild |-> FALSE,
             seen |-> {}, snapshot |-> {}]

NoProbe == [stage |-> "none"]

\* A command as written to the connection.  link says who waits for the reply:
\* "await" (the method resumes on it), "adopt" (the returned promise settles with
\* it) or "drop" (nobody looks at it).
Cmd(c, name, key, n, v, field, link) ==
    [name |-> name, n |-> n, v |-> v, key |-> toArg(key), field |-> field,
     link |-> link, call |-> c]

(***************************************************************************)
(* Redis executing one command: the store and expiries afterwards, and the *)
(* reply.                                                                  *)
(***************************************************************************)
Outcome(s, t, ok, v) == [store |-> s, ttl |-> t, ok |-> ok, reply |-> v]

ExecCmd(cmd, st, tl) ==
    LET k == cmd.key
        present == k \in DOMAIN st
        isHash == present /\ st[k].t = "hash"
        isInt == present /\ st[k].t = "string" /\ "dec" \in DOMAIN st[k]
        wrongType == Outcome(st, tl, FALSE, Err("WRONGTYPE"))
        notInt == Outcome(st, tl, FALSE, Err("ERR not an integer"))
        d == IF cmd.name = "decrby" THEN 0 - cmd.n ELSE cmd.n
    IN  CASE cmd.name = "get" ->
               IF isHash THEN wrongType
               ELSE Outcome(st, tl, TRUE, IF present THEN st[k] ELSE JNull)
          [] cmd.name \in {"incrby", "decrby"} ->
               IF ~present THEN Outcome(Put(st, k, DecStr(d)), tl, TRUE, Num(d))
               ELSE IF isHash THEN wrongType
               ELSE IF isInt
                    THEN Outcome(Put(st, k, DecStr(st[k].dec + d)), tl, TRUE,
                                 Num(st[k].dec + d))
                    ELSE notInt
          [] cmd.name = "set" ->
               Outcome(Put(st, k, cmd.v), Drop(tl, k), TRUE, OkStr)
          [] cmd.name = "setex" ->
               Outcome(Put(st, k, cmd.v), Put(tl, k, cmd.n), TRUE, OkStr)
          [] cmd.name = "expire" ->
               IF present THEN Outcome(st, Put(tl, k, cmd.n), TRUE, Num(1))
               ELSE Outcome(st, tl, TRUE, Num(0))
          [] cmd.name = "del" ->
               IF present THEN Outcome(Drop(st, k), Drop(tl, k), TRUE, Num(1))
               ELSE Outcome(st, tl, TRUE, Num(0))
          [] cmd.name = "hincrby" ->
               IF ~present
               THEN Outcome(Put(st, k, HashVal(Put(<<>>, cmd.field, cmd.n))), tl, TRUE,
                            Num(cmd.n))
               ELSE IF ~isHash THEN wrongType
               ELSE LET old == IF cmd.field \in DOMAIN st[k].h
                               THEN st[k].h[cmd.field] ELSE 0
                    IN  Outcome(Put(st, k, HashVal(Put(st[k].h, cmd.field, old + cmd.n))),
                                tl, TRUE, Num(old + cmd.n))
          [] cmd.name = "hgetall" ->
               IF ~present THEN Outcome(st, tl, TRUE, HashObj(<<>>))
               ELSE IF ~isHash THEN wrongType
               ELSE Outcome(st, tl, TRUE, HashObj(st[k].h))

LogEntry(c, name, key, ok) == [name |-> name, key |-> key, call |-> c, ok |-> ok]


(***************************************************************************)
(* Calls.  A method runs up to its first await (or to its return) in one   *)
(* step; what follows an await runs when Redis has answered.               *)
(***************************************************************************)
IsIdle(c) == calls[c].pc = "idle"

\* the call record of a method that has been entered
Entered(op, arg, key, amount, expiry, field, fast) ==
    [IdleCall EXCEPT !.op = op, !.arg = arg, !.pc = "await", !.status = "pending", !.key = key,
                     !.amount = amount, !.expiry = expiry, !.field = field,
                     !.fast = fast]

Fulfil(call, v) == [call EXCEPT !.pc = "done", !.status = "fulfilled", !.val = v]
Reject(call, e) == [call EXCEPT !.pc = "done", !.status = "rejected", !.val = e]
\* a method that is not async: it returns, or throws, to its caller
Return(call, v) == [call EXCEPT !.pc = "done", !.status = "returned", !.val = v]
Throw(call, e) == [call EXCEPT !.pc = "done", !.status = "threw", !.val = e]

Continue(call, cmds) == [call |-> call, cmds |-> cmds]

Enter(c, call, cmds) ==
    /\ IsIdle(c)
    /\ calls' = [calls EXCEPT ![c] = call]
    /\ queue' = queue \o cmds
    /\ UNCHANGED <<store, ttl, log, isCluster, probe>>

\* if (expiresAtInSeconds) this.publisher.expire(key, expiresAtInSeconds), not awaited
expireUnawaited(c, key, expiry) ==
    IF expiry # 0 THEN <<Cmd(c, "expire", key, expiry, JUndef, <<>>, "drop")>> ELSE <<>>

(***************************************************************************)
(* StatsService: scalar counters.                                          *)
(***************************************************************************)
\* An identity as a caller of StatsService passes it
Identity(global, type, name, host, instanceurn) ==
    [global |-> global, instanceurn |-> instanceurn, type |-> type,
     name |-> name, host |-> host]

incrStatValue_key(id) ==
    namedStatKey(KeyArgs(id.global, id.instanceurn, Str(id.type), Str(id.name), id.host))

incrStatValue_expireFirst(c, id, value, expiresAtInSeconds, fast) ==
    LET key == incrStatValue_key(id)
    IN  Enter(c, Entered("incrStatValue", id, key, value, expiresAtInSeconds, <<>>, fast),
              IF fast
              THEN expireUnawaited(c, key, expiresAtInSeconds)
                       \o <<Cmd(c, "incrby", key, value, JUndef, <<>>, "adopt")>>
              ELSE <<Cmd(c, "incrby", key, value, JUndef, <<>>, "await")>>)

incrStatValue(c, id, value, expiresAtInSeconds, fast) ==
    LET key == incrStatValue_key(id)
    IN  Enter(c, Entered("incrStatValue", id, key, value, expiresAtInSeconds, <<>>, fast),
              IF fast
              THEN <<Cmd(c, "incrby", key, value, JUndef, <<>>, "adopt")>>
                       \o expireUnawaited(c, key, expiresAtInSeconds)
              ELSE <<Cmd(c, "incrby", key, value, JUndef, <<>>, "await")>>)

decrStatValue_key(id) ==
    namedStatKey(KeyArgs(id.global, id.instanceurn, Str(id.type), Str(id.name), id.host))

decrStatValue(c, id, value, expiresAtInSeconds, fast) ==
    LET key == decrStatValue_key(id)
    IN  Enter(c, Entered("decrStatValue", id, key, value, expiresAtInSeconds, <<>>, fast),
              IF fast
              THEN <<Cmd(c, "decrby", key, value, JUndef, <<>>, "adopt")>>
                       \o expireUnawaited(c, key, expiresAtInSeconds)
              ELSE <<Cmd(c, "decrby", key, value, JUndef, <<>>, "await")>>)

\* after `newValue = await this.publisher.incrby(...)` / decrby
statValue_resume(c, call, r) ==
    IF r.ok
    THEN Continue(Fulfil(call, r.reply), expireUnawaited(c, call.key, call.expiry))
    ELSE Continue(Reject(call, r.reply), <<>>)

\* host is not passed on: namedStatKey falls back to the host name
setStatValue_key(id) ==
    namedStatKey(KeyArgs(id.global, id.instanceurn, Str(id.type), Str(id.name), undefined))

setStatValue(c, id, value, expiresAtInSeconds) ==
    LET key == setStatValue_key(id)
        call == Entered("setStatValue", id, key, value, expiresAtInSeconds, <<>>, FALSE)
    IN  Enter(c, Return(call, JUndef),
              IF expiresAtInSeconds # 0
              THEN <<Cmd(c, "setex", key, expiresAtInSeconds, JsonStr(value), <<>>, "drop")>>
              ELSE <<Cmd(c, "set", key, 0, JsonStr(value), <<>>, "drop")>>)

\* type is passed as it came, name through a template literal, host not at all
getStatValue_key(id) ==
    namedStatKey(KeyArgs(id.global, id.instanceurn, id.type, Str(id.name), undefined))

\* global is not passed on, and undefined is falsy
removeStatValue_key(id) ==
    namedStatKey(KeyArgs(FALSE, id.instanceurn, Str(id.type), Str(id.name), undefined))

\* `debug(`Deleting Value ${value} ...`)` reads a variable that is declared nowhere
removeStatValue(c, id) ==
    LET key == removeStatValue_key(id)
        call == Entered("removeStatValue", id, key, 0, 0, <<>>, FALSE)
    IN  Enter(c, Throw(call, Err("ReferenceError")), <<>>)

(***************************************************************************)
(* CounterService: scalar counters.                                        *)
(***************************************************************************)
count_otherKey(c, name) ==
    LET key == counterKeyPrefix \o <<":", "cnt", ":">> \o Str(name)
    IN  Enter(c, Entered("count", name, key, 0, 0, <<>>, FALSE),
              <<Cmd(c, "get", key, 0, JUndef, <<>>, "adopt")>>)

count(c, name) ==
    LET key == namedCounterKey(name)
    IN  Enter(c, Entered("count", name, key, 0, 0, <<>>, FALSE),
              <<Cmd(c, "get", key, 0, JUndef, <<>>, "adopt")>>)

incr_lostUpdate(c, name, amount, expirySeconds) ==
    LET key == namedCounterKey(name)
    IN  Enter(c, Entered("incr", name, key, amount, expirySeconds, <<>>, FALSE),
              <<Cmd(c, "set", key, 0, DecStr(amount), <<>>, "await")>>)

incr(c, name, amount, expirySeconds) ==
    LET key == namedCounterKey(name)
    IN  Enter(c, Entered("incr", name, key, amount, expirySeconds, <<>>, FALSE),
              <<Cmd(c, "incrby", key, amount, JUndef, <<>>, "await")>>)

decr(c, name, amount, expirySeconds) ==
    LET key == namedCounterKey(name)
    IN  Enter(c, Entered("decr", name, key, amount, expirySeconds, <<>>, FALSE),
              <<Cmd(c, "decrby", key, amount, JUndef, <<>>, "await")>>)

\* after `const value = await this.client.incrby(...)` (pc "await"), and after
\* `await this.client.expire(...)` (pc "expire")
counter_resume_noExpire(c, call, r) ==
    IF ~r.ok THEN Continue(Reject(call, r.reply), <<>>)
    ELSE Continue(Fulfil(call, r.reply), <<>>)

counter_resume(c, call, r) ==
    IF ~r.ok THEN Continue(Reject(call, r.reply), <<>>)
    ELSE IF call.pc = "await"
         THEN IF call.expiry # 0
              THEN Continue([call EXCEPT !.pc = "expire", !.val = r.reply],
                            <<Cmd(c, "expire", call.key, call.expiry, JUndef, <<>>, "await")>>)
              ELSE Continue(Fulfil(call, r.reply), <<>>)
         ELSE Continue(Fulfil(call, call.val), <<>>)

\* ioredis writes a number as its decimal string
set(c, name, value, expirySeconds) ==
    LET key == namedCounterKey(name)
    IN  Enter(c, Entered("set", name, key, value, expirySeconds, <<>>, FALSE),
              IF expirySeconds # 0
              THEN <<Cmd(c, "setex", key, expirySeconds, DecStr(value), <<>>, "adopt")>>
              ELSE <<Cmd(c, "set", key, 0, DecStr(value), <<>>, "adopt")>>)

delete(c, name) ==
    LET key == namedCounterKey(name)
    IN  Enter(c, Entered("delete", name, key, 0, 0, <<>>, FALSE),
              <<Cmd(c, "del", key, 0, JUndef, <<>>, "adopt")>>)


(***************************************************************************)
(* Scan streams.  A stream hands the keys that match its pattern to the    *)
(* 'data' listener page by page and then emits 'end'.  A key that exists   *)
(* from the start of the scan to its end is delivered; a key that appears  *)
(* or disappears meanwhile may or may not be.                              *)
(***************************************************************************)
Scanning(op, arg, key, status) ==
    [IdleCall EXCEPT !.op = op, !.arg = arg, !.pc = "stream", !.status = status, !.key = key,
                     !.wild = TRUE, !.snapshot = DOMAIN store]

getStatValue(c, id) ==
    LET key == getStatValue_key(id)
    IN  IF includes(key, "*")
        THEN Enter(c, Scanning("getStatValue", id, key, "pending"), <<>>)
        ELSE Enter(c, Entered("getStatValue", id, key, 0, 0, <<>>, FALSE),
                   <<Cmd(c, "get", key, 0, JUndef, <<>>, "await")>>)

\* after `await this.publisher.get(key)` / hgetall(key)
read_resume(c, call, r) ==
    IF r.ok THEN Continue(Fulfil(call, r.reply), <<>>)
    ELSE Continue(Reject(call, r.reply), <<>>)

counterKeys(c, name) ==
    LET key == namedCounterKey(name)
        call == Entered("counterKeys", name, key, 0, 0, <<>>, FALSE)
    IN  IF ~endsWith(key, "*")
        THEN Enter(c, Fulfil(call, ScanResult(1, <<key>>)), <<>>)
        ELSE IF isCluster
             THEN Enter(c, Reject(call, Err("Cluster mode does not support scanStream")),
                        <<>>)
             ELSE Enter(c, Scanning("counterKeys", name, key, "pending"), <<>>)

removeAllKeysForInstance_key(instanceurn) ==
    namedStatKey(KeyArgs(FALSE, instanceurn, <<"*">>, <<"*">>, undefined))

\* not async: it has returned before the stream delivers anything
removeAllKeysForInstance(c, instanceurn) ==
    Enter(c, Scanning("removeAllKeysForInstance", instanceurn,
                      removeAllKeysForInstance_key(instanceurn), "returned"), <<>>)

\* the keys a page of the stream of call c may hold now
Deliverable(c) ==
    {k \in DOMAIN store : globMatch(calls[c].key, k)} \ calls[c].seen

\* the sequences of at most n distinct elements of S
Pages(S, n) ==
    {p \in UNION {[1..m -> S] : m \in 0..n} :
        \A i, j \in 1..Len(p) : i # j => p[i] # p[j]}

\* stream.on('data', ...) of the three scanning methods
onData(call, keys) ==
    CASE call.op = "getStatValue" ->
           IF Len(keys) > 0
           THEN [call EXCEPT !.count = @ + Len(keys), !.results = Append(@, keys)]
           ELSE call
      [] call.op = "counterKeys" ->
           IF Len(keys) > 0
           THEN [call EXCEPT !.count = @ + Len(keys), !.results = @ \o keys]
           ELSE call
      [] call.op = "removeAllKeysForInstance" ->
           \* keys.forEach(function (key) { this.publisher.del(key) }): this is
           \* undefined inside the callback, so the first key throws a TypeError
           IF Len(keys) # 0
           THEN [call EXCEPT !.pc = "uncaught"]
           ELSE call

\* stream.on('end', ...)
onEnd(call) ==
    IF call.op = "removeAllKeysForInstance" THEN [call EXCEPT !.pc = "done"]
    ELSE Fulfil(call, ScanResult(call.count, call.results))

StreamData(c) ==
    /\ calls[c].pc = "stream"
    /\ \E keys \in Pages(Deliverable(c), MaxPage) :
          calls' = [calls EXCEPT ![c] =
                       onData([calls[c] EXCEPT
                                  !.seen = @ \cup {keys[i] : i \in 1..Len(keys)}], keys)]
    /\ UNCHANGED <<store, ttl, queue, log, isCluster, probe>>

StreamEnd(c) ==
    /\ calls[c].pc = "stream"
    /\ Deliverable(c) \cap calls[c].snapshot = {}
    /\ calls' = [calls EXCEPT ![c] = onEnd(calls[c])]
    /\ UNCHANGED <<store, ttl, queue, log, isCluster, probe>>

\* The SCAN behind the stream fails: the stream emits 'error', which no method
\* listens to, so the stream stops and nothing settles the promise
StreamError(c) ==
    /\ calls[c].pc = "stream"
    /\ calls' = [calls EXCEPT ![c] = [@ EXCEPT !.pc = "streamError"]]
    /\ UNCHANGED <<store, ttl, queue, log, isCluster, probe>>

(***************************************************************************)
(* Hash counters.                                                          *)
(***************************************************************************)
incrHashValue_key(id) ==
    namedHashKey(KeyArgs(id.global, id.instanceurn, undefined, Str(id.name), id.host))

\* The commands go into a pipeline whose exec callback returns nothing to the
\* method, which ends without a return statement: the promise is fulfilled with
\* undefined as soon as the batch is written.
incrHashValue(c, id, field, value, expiresAtInSeconds, fast) ==
    LET key == incrHashValue_key(id)
        call == Entered("incrHashValue", id, toArg(key), value, expiresAtInSeconds, field, fast)
    IN  Enter(c, Fulfil(call, JUndef),
              <<Cmd(c, "hincrby", key, value, JUndef, field, "drop")>>
                  \o expireUnawaited(c, key, expiresAtInSeconds))

\* `pipeline.hincrby(key, type, value)` reads a variable that is declared nowhere
decrHashValue(c, id, field, value, expiresAtInSeconds, fast) ==
    LET key == incrHashValue_key(id)
        call == Entered("decrHashValue", id, toArg(key), value, expiresAtInSeconds, field, fast)
    IN  Enter(c, Reject(call, Err("ReferenceError")), <<>>)

getHashValues(c, id) ==
    LET key == incrHashValue_key(id)
    IN  Enter(c, Entered("getHashValues", id, toArg(key), 0, 0, <<>>, FALSE),
              <<Cmd(c, "hgetall", key, 0, JUndef, <<>>, "await")>>)

incrHashField_fixedField(c, name, field, amount, expirySeconds) ==
    LET key == namedCounterKey(name)
    IN  Enter(c, Entered("incrHashField", name, key, amount, expirySeconds, field, FALSE),
              <<Cmd(c, "hincrby", key, amount, JUndef, <<"a">>, "await")>>)

incrHashField(c, name, field, amount, expirySeconds) ==
    LET key == namedCounterKey(name)
    IN  Enter(c, Entered("incrHashField", name, key, amount, expirySeconds, field, FALSE),
              <<Cmd(c, "hincrby", key, amount, JUndef, field, "await")>>)

\* the amount is passed on as it came
decrHashField(c, name, field, amount, expirySeconds) ==
    LET key == namedCounterKey(name)
    IN  Enter(c, Entered("decrHashField", name, key, amount, expirySeconds, field, FALSE),
              <<Cmd(c, "hincrby", key, amount, JUndef, field, "await")>>)

hashCounts(c, name) ==
    LET key == namedCounterKey(name)
    IN  Enter(c, Entered("hashCounts", name, key, 0, 0, <<>>, FALSE),
              <<Cmd(c, "hgetall", key, 0, JUndef, <<>>, "adopt")>>)

(***************************************************************************)
(* Redis answers the oldest command on the connection.                     *)
(***************************************************************************)
resume(c, call, r) ==
    CASE call.op \in {"incrStatValue", "decrStatValue"} -> statValue_resume(c, call, r)
      [] call.op \in {"incr", "decr", "incrHashField", "decrHashField"} ->
           counter_resume(c, call, r)
      [] call.op \in {"getStatValue", "getHashValues"} -> read_resume(c, call, r)

Settle(r) ==
    LET cmd == Head(queue)
        c == cmd.call
        next == CASE cmd.link = "drop" -> Continue(calls[c], <<>>)
                  [] cmd.link = "adopt" ->
                       Continue(IF r.ok THEN Fulfil(calls[c], r.reply)
                                ELSE Reject(calls[c], r.reply), <<>>)
                  [] cmd.link = "await" -> resume(c, calls[c], r)
    IN  /\ store' = r.store
        /\ ttl' = r.ttl
        /\ calls' = [calls EXCEPT ![c] = next.call]
        /\ queue' = Tail(queue) \o next.cmds
        /\ log' = Append(log, LogEntry(c, cmd.name, cmd.key, r.ok))
        /\ UNCHANGED <<isCluster, probe>>

\* Redis executes the command and its reply reaches the client
Execute ==
    /\ queue # <<>>
    /\ Settle(ExecCmd(Head(queue), store, ttl))

\* the connection fails the command: Redis does not execute it
Fail ==
    /\ queue # <<>>
    /\ Settle(Outcome(store, ttl, FALSE, Err("connection")))

\* Redis evicts a key whose time to live has run out
Evict(k) ==
    /\ k \in DOMAIN ttl
    /\ store' = Drop(store, k)
    /\ ttl' = Drop(ttl, k)
    /\ log' = Append(log, LogEntry(0, "evict", k, TRUE))
    /\ UNCHANGED <<queue, calls, isCluster, probe>>


(***************************************************************************)
(* Initial state: both services constructed, Redis empty, no call made.    *)
(***************************************************************************)
Init ==
    /\ store = <<>>
    /\ ttl = <<>>
    /\ queue = <<>>
    /\ calls = [c \in Calls |-> IdleCall]
    /\ log = <<>>
    /\ isCluster \in BOOLEAN
    /\ probe = NoProbe

AllDone ==
    queue = <<>> /\ \A c \in Calls : calls[c].pc \in {"done", "uncaught", "streamError"}

(***************************************************************************)
(* SpecKeys: the key functions applied to pairs of identities.             *)
(***************************************************************************)
ProbeHosts == {undefined, null, <<"x">>, <<"y">>}
ProbeInstances == {undefined, <<"x">>, <<"y">>}
ProbeTypes == {<<"count">>, <<"gauge">>}
ProbeNames == {<<"online">>, <<"subs">>}
ProbeIds ==
    {KeyArgs(g, i, t, n, h) : g \in BOOLEAN, i \in ProbeInstances,
                              t \in ProbeTypes, n \in ProbeNames, h \in ProbeHosts}

InitKeys ==
    /\ store = <<>>
    /\ ttl = <<>>
    /\ queue = <<>>
    /\ calls = [c \in Calls |-> IdleCall]
    /\ log = <<>>
    /\ isCluster = FALSE
    /\ probe \in {[a |-> a, stage |-> "args", b |-> b] : a \in ProbeIds, b \in ProbeIds}

ResolveKeys ==
    /\ probe.stage = "args"
    /\ probe' = [a |-> probe.a, stage |-> "keys", b |-> probe.b,
                 ka |-> namedStatKey(probe.a), kb |-> namedStatKey(probe.b)]
    /\ UNCHANGED <<store, ttl, queue, calls, log, isCluster>>

NextKeys == ResolveKeys

SpecKeys == InitKeys /\ [][NextKeys]_vars

(***************************************************************************)
(* SpecIncr: concurrent increments by one, without expiry, of counters     *)
(* that do not exist yet.                                                  *)
(***************************************************************************)
Online == Identity(TRUE, <<"count">>, <<"online">>, undefined, undefined)
AnyOnline == Identity(TRUE, <<"count">>, <<"*">>, undefined, undefined)
IncrIds == {Online, AnyOnline}
IncrNames == {<<"online">>, <<"*">>}

CallIncrStatValue ==
    \E c \in Calls, id \in IncrIds, fast \in BOOLEAN : incrStatValue(c, id, 1, 0, fast)

CallIncr == \E c \in Calls, name \in IncrNames : incr(c, name, 1, 0)

NextIncr == CallIncrStatValue \/ CallIncr \/ Execute \/ Fail

SpecIncr == Init /\ [][NextIncr]_vars

(***************************************************************************)
(* SpecSetGet: counters written with set and read back, on one connection. *)
(***************************************************************************)
Values == 0..MaxValue
Subs == Identity(FALSE, <<"count">>, <<"subs">>, undefined, <<"i1">>)
SetIds == {Online, Subs}
SetNames == {<<"online">>}
Expiries == {0, 1}

CallSetStatValue ==
    \E c \in Calls, id \in SetIds, v \in Values, e \in Expiries : setStatValue(c, id, v, e)

CallGetStatValue == \E c \in Calls, id \in SetIds : getStatValue(c, id)

CallSet == \E c \in Calls, name \in SetNames, v \in Values, e \in Expiries : set(c, name, v, e)

CallCount == \E c \in Calls, name \in SetNames : count(c, name)

EvictSome == \E k \in DOMAIN ttl : Evict(k)

NextSetGet ==
    \/ CallSetStatValue
    \/ CallGetStatValue
    \/ CallSet
    \/ CallCount
    \/ Execute
    \/ Fail
    \/ EvictSome

SpecSetGet == Init /\ [][NextSetGet]_vars

(***************************************************************************)
(* SpecScan: scans of a keyspace that nothing else writes to.              *)
(***************************************************************************)
StatKey(name, host, instanceurn) ==
    namedStatKey(KeyArgs(FALSE, instanceurn, <<"count">>, name, host))

\* keys that earlier increments of the two services have left behind
ScanUniverse ==
    {StatKey(<<"online">>, <<"h1">>, undefined),
     StatKey(<<"online">>, <<"h2">>, undefined),
     StatKey(<<"online">>, undefined, <<"i1">>),
     StatKey(<<"subs">>, <<"h1">>, <<"i1">>),
     namedCounterKey(<<"online", ":", "h1">>)}

InitScan ==
    /\ store \in {[k \in S |-> DecStr(1)] : S \in SUBSET ScanUniverse}
    /\ ttl = <<>>
    /\ queue = <<>>
    /\ calls = [c \in Calls |-> IdleCall]
    /\ log = <<>>
    /\ isCluster \in BOOLEAN
    /\ probe = NoProbe

OnlineAnyHost == Identity(TRUE, <<"count">>, <<"online", ":", "*">>, undefined, undefined)
AnyOfInstance == Identity(FALSE, <<"count">>, <<"*">>, undefined, <<"i1">>)
ScanIds == {OnlineAnyHost, AnyOfInstance}
ScanNames == {<<"online", ":", "*">>, <<"*">>, <<"online", ":", "h1">>}
ScanInstances == {<<"i1">>}

CallScanStatValue == \E c \in Calls, id \in ScanIds : getStatValue(c, id)

CallCounterKeys == \E c \in Calls, name \in ScanNames : counterKeys(c, name)

CallRemoveAllKeysForInstance ==
    \E c \in Calls, i \in ScanInstances : removeAllKeysForInstance(c, i)

StreamStep == \E c \in Calls : StreamData(c) \/ StreamEnd(c) \/ StreamError(c)

NextScan ==
    \/ CallScanStatValue
    \/ CallCounterKeys
    \/ CallRemoveAllKeysForInstance
    \/ StreamStep

SpecScan == InitScan /\ [][NextScan]_vars

(***************************************************************************)
(* SpecHash: concurrent increments of the fields of hash counters.         *)
(***************************************************************************)
Amounts == 1..MaxValue
HFields == {<<"a">>, <<"b">>}
HashNames == {<<"subs">>}
HashIds == {Identity(TRUE, undefined, <<"subs">>, undefined, undefined)}

CallIncrHashField ==
    \E c \in Calls, name \in HashNames, f \in HFields, n \in Amounts, e \in Expiries :
        incrHashField(c, name, f, n, e)

CallHashCounts == \E c \in Calls, name \in HashNames : hashCounts(c, name)

CallIncrHashValue ==
    \E c \in Calls, id \in HashIds, f \in HFields, n \in Amounts, fast \in BOOLEAN :
        incrHashValue(c, id, f, n, 0, fast)

CallGetHashValues == \E c \in Calls, id \in HashIds : getHashValues(c, id)

NextHash ==
    \/ CallIncrHashField
    \/ CallHashCounts
    \/ CallIncrHashValue
    \/ CallGetHashValues
    \/ Execute
    \/ Fail
    \/ EvictSome

SpecHash == Init /\ [][NextHash]_vars

(***************************************************************************)
(* SpecExpiry: increments by one, with an expiry, of counters that do not  *)
(* exist yet.  Redis executes what reaches it and evicts what has expired. *)
(***************************************************************************)
CallIncrStatValueExpiring ==
    \E c \in Calls, fast \in BOOLEAN : incrStatValue(c, Online, 1, 1, fast)

CallIncrExpiring == \E c \in Calls, name \in SetNames : incr(c, name, 1, 1)

NextExpiry ==
    \/ CallIncrStatValueExpiring
    \/ CallIncrExpiring
    \/ Execute
    \/ Fail
    \/ EvictSome

SpecExpiry == Init /\ [][NextExpiry]_vars /\ WF_vars(Execute) /\ WF_vars(EvictSome)

(***************************************************************************)
(* SpecDelete: counters written, removed and read back.                    *)
(***************************************************************************)
CallDelete == \E c \in Calls, name \in SetNames : delete(c, name)

CallRemoveStatValue == \E c \in Calls, id \in SetIds : removeStatValue(c, id)

NextDelete ==
    \/ CallSet
    \/ CallSetStatValue
    \/ CallDelete
    \/ CallRemoveStatValue
    \/ CallCount
    \/ CallGetStatValue
    \/ Execute
    \/ Fail

SpecDelete == Init /\ [][NextDelete]_vars

(***************************************************************************)
(* SpecHashOps: increments and decrements of hash counters of several      *)
(* names, global and scoped, without expiry.                               *)
(***************************************************************************)
HashOpIds ==
    {Identity(TRUE, undefined, <<"subs">>, undefined, undefined),
     Identity(FALSE, undefined, <<"subs">>, undefined, <<"i1">>),
     Identity(FALSE, undefined, <<"online">>, undefined, <<"i1">>)}

CallIncrHashValueOf ==
    \E c \in Calls, id \in HashOpIds, f \in HFields, n \in Amounts, fast \in BOOLEAN :
        incrHashValue(c, id, f, n, 0, fast)

CallDecrHashValue ==
    \E c \in Calls, id \in HashOpIds, f \in HFields, n \in Amounts, fast \in BOOLEAN :
        decrHashValue(c, id, f, n, 0, fast)

CallGetHashValuesOf == \E c \in Calls, id \in HashOpIds : getHashValues(c, id)

CallIncrHashFieldPlain ==
    \E c \in Calls, name \in HashNames, f \in HFields, n \in Amounts :
        incrHashField(c, name, f, n, 0)

CallDecrHashField ==
    \E c \in Calls, name \in HashNames, f \in HFields, n \in Amounts :
        decrHashField(c, name, f, n, 0)

NextHashOps ==
    \/ CallIncrHashFieldPlain
    \/ CallDecrHashField
    \/ CallIncrHashValueOf
    \/ CallDecrHashValue
    \/ CallGetHashValuesOf
    \/ CallHashCounts
    \/ Execute
    \/ Fail

SpecHashOps == Init /\ [][NextHashOps]_vars

(***************************************************************************)
(* SpecNames: the keys that the methods of the two services build for one  *)
(* identity and one counter name.                                          *)
(***************************************************************************)
NameIds ==
    {Identity(g, t, n, h, i) : g \in BOOLEAN, t \in ProbeTypes, n \in ProbeNames,
                               h \in ProbeHosts, i \in ProbeInstances}

InitNames ==
    /\ store = <<>>
    /\ ttl = <<>>
    /\ queue = <<>>
    /\ calls = [c \in Calls |-> IdleCall]
    /\ log = <<>>
    /\ isCluster = FALSE
    /\ probe \in {[name |-> n, stage |-> "identity", id |-> id] :
                     n \in ProbeNames, id \in NameIds}

ResolveNames ==
    /\ probe.stage = "identity"
    /\ probe' = [name |-> probe.name, stage |-> "resolved", id |-> probe.id,
                 kStat |-> namedStatKey(probe.id),
                 kCounter |-> namedCounterKey(probe.name),
                 kGet |-> getStatValue_key(probe.id),
                 kIncr |-> incrStatValue_key(probe.id),
                 kDecr |-> decrStatValue_key(probe.id),
                 kSet |-> setStatValue_key(probe.id),
                 kRemove |-> removeStatValue_key(probe.id)]
    /\ UNCHANGED <<store, ttl, queue, calls, log, isCluster>>

NextNames == ResolveNames

SpecNames == InitNames /\ [][NextNames]_vars

(***************************************************************************)
(* SpecConfig: construction of the two services.  A configuration is       *)
(* described by which of its fields are there.                             *)
(***************************************************************************)
\* the argument of StatsService.init: config, config.REDIS, config.REDIS.URL, ...
StatsConfigs ==
    {cfg \in [SYSTEM : BOOLEAN, PRODUCT : BOOLEAN, ENVIRONMENT : BOOLEAN,
              config : BOOLEAN, REDIS : BOOLEAN, URL : BOOLEAN, PORT : BOOLEAN] :
        /\ ~cfg.config => ~cfg.REDIS /\ ~cfg.SYSTEM /\ ~cfg.PRODUCT /\ ~cfg.ENVIRONMENT
        /\ ~cfg.REDIS => ~cfg.URL /\ ~cfg.PORT}

\* the argument of the constructor of CounterService: app.system, ..., options, nodes
CounterConfigs ==
    [system : BOOLEAN, product : BOOLEAN, environment : BOOLEAN, options : BOOLEAN,
     nodes : {"absent", "empty", "one"}]

Constructed(threw, client, cluster) == [threw |-> threw, client |-> client, cluster |-> cluster]

\* StatsService.init: `if (config && config.REDIS) {...} else throw`, then new Redis
init(cfg) ==
    IF cfg.config /\ cfg.REDIS
    THEN Constructed(FALSE, TRUE, FALSE)
    ELSE Constructed(TRUE, FALSE, FALSE)

\* the constructor of CounterService: nothing is looked at but nodes
constructor(cfg) ==
    LET cluster == cfg.nodes = "one"
    IN  Constructed(FALSE, TRUE, cluster)

InitConfig ==
    /\ store = <<>>
    /\ ttl = <<>>
    /\ queue = <<>>
    /\ calls = [c \in Calls |-> IdleCall]
    /\ log = <<>>
    /\ isCluster = FALSE
    /\ probe \in {[stage |-> "config", cfg |-> cfg, service |-> "StatsService"] :
                      cfg \in StatsConfigs}
                 \cup {[stage |-> "config", cfg |-> cfg, service |-> "CounterService"] :
                          cfg \in CounterConfigs}

ConstructStatsService ==
    /\ probe.stage = "config"
    /\ probe.service = "StatsService"
    /\ probe' = [stage |-> "constructed", cfg |-> probe.cfg, service |-> probe.service,
                 made |-> init(probe.cfg)]
    /\ UNCHANGED <<store, ttl, queue, calls, log, isCluster>>

ConstructCounterService ==
    /\ probe.stage = "config"
    /\ probe.service = "CounterService"
    /\ probe' = [stage |-> "constructed", cfg |-> probe.cfg, service |-> probe.service,
                 made |-> constructor(probe.cfg)]
    /\ isCluster' = constructor(probe.cfg).cluster
    /\ UNCHANGED <<store, ttl, queue, calls, log>>

NextConfig == ConstructStatsService \/ ConstructCounterService

SpecConfig == InitConfig /\ [][NextConfig]_vars

(***************************************************************************)
(* SpecCrash: increments and decrements with an expiry, in a process that  *)
(* may die at any moment.                                                  *)
(***************************************************************************)
\* The process of the caller dies while commands are on their way.  Of the
\* commands it has written, Redis still gets those that had left the process,
\* not the last one at least; nothing waits for a reply any more, and no method
\* runs on.
Crash ==
    /\ queue # <<>>
    /\ \E n \in 0..(Len(queue) - 1) :
          queue' = [i \in 1..n |-> [queue[i] EXCEPT !.link = "drop"]]
    /\ calls' = [c \in Calls |->
                   IF calls[c].pc = "done" THEN calls[c]
                   ELSE [calls[c] EXCEPT !.pc = "crashed"]]
    /\ UNCHANGED <<store, ttl, log, isCluster, probe>>

CallDecrStatValueExpiring ==
    \E c \in Calls, fast \in BOOLEAN : decrStatValue(c, Online, 1, 1, fast)

CallDecrExpiring == \E c \in Calls, name \in SetNames : decr(c, name, 1, 1)

NextCrash ==
    \/ CallIncrStatValueExpiring
    \/ CallDecrStatValueExpiring
    \/ CallIncrExpiring
    \/ CallDecrExpiring
    \/ Execute
    \/ Fail
    \/ Crash

\* a single node
InitCrash == Init /\ isCluster = FALSE

SpecCrash == InitCrash /\ [][NextCrash]_vars

(***************************************************************************)
(* Claims.                                                                 *)
(***************************************************************************)
\* the calls whose increment Redis has executed on key k
Incremented(k) == {c \in Calls : calls[c].key = k /\ calls[c].status = "fulfilled"}

\* C1: once all concurrent increments by one of a fresh counter have completed,
\* the counter holds the number of increments that completed successfully: N
\* when all N did.
C1_AtomicAccumulation ==
    AllDone =>
        \A c \in Calls :
            LET k == calls[c].key
            IN  IF Incremented(k) = {} THEN k \notin DOMAIN store
                ELSE k \in DOMAIN store /\ store[k] = DecStr(Cardinality(Incremented(k)))

\* every call incremented the same counter, concurrently with the others, and
\* succeeded
C1_Witness ==
    /\ AllDone
    /\ \A c \in Calls : calls[c].status = "fulfilled" /\ calls[c].key = calls[1].key
    /\ store[calls[1].key] = DecStr(MaxCalls)
    /\ \A i \in 1..MaxCalls : log[i].name = "incrby"

\* the suffix segments a key is built from, besides the prefix
Segments(a) ==
    LET host == IF a.host = undefined THEN systemHost ELSE a.host
    IN  <<a.type, a.name>>
            \o (IF ~a.global /\ Truthy(host) THEN <<host>> ELSE <<>>)
            \o (IF ~a.global /\ Truthy(a.instanceurn) THEN <<a.instanceurn>> ELSE <<>>)

\* the differences the specification says must change the key
DiffersBeyondGlobalHost(a, b) ==
    \/ a.global # b.global
    \/ a.type # b.type
    \/ a.name # b.name
    \/ a.instanceurn # b.instanceurn
    \/ ~a.global /\ ~b.global /\ a.host # b.host

\* C2, as stated: two valid identities that differ in scope, counterType,
\* counterName, instanceId, or host under Scoped scope, resolve to different keys.
C2_Injective ==
    probe.stage = "keys" =>
        (DiffersBeyondGlobalHost(probe.a, probe.b) => probe.ka # probe.kb)

\* C2, amended: two valid identities resolve to the same key exactly when they
\* have the same counterType, the same counterName and the same emitted suffix
\* segments: none under Global scope, and under Scoped scope the host (given, or
\* the machine's by default) if there is one, then the instanceId if there is one.
C2_InjectiveOnSegments ==
    probe.stage = "keys" =>
        (probe.ka = probe.kb <=> Segments(probe.a) = Segments(probe.b))

\* two scoped identities that differ in host only have been resolved
C2_Witness ==
    /\ probe.stage = "keys"
    /\ ~probe.a.global /\ ~probe.b.global
    /\ probe.a.host = <<"x">> /\ probe.b.host = <<"y">>
    /\ probe.a.instanceurn = probe.b.instanceurn /\ Truthy(probe.a.instanceurn)
    /\ probe.a.type = probe.b.type /\ probe.a.name = probe.b.name
    /\ probe.ka # probe.kb


\* Redis executed the set of call s, then the get of call g for the same identity,
\* and in between nothing wrote, deleted or evicted that key
SetThenGet(s, g) ==
    /\ \/ calls[s].op = "setStatValue" /\ calls[g].op = "getStatValue"
       \/ calls[s].op = "set" /\ calls[g].op = "count"
    /\ calls[s].arg = calls[g].arg
    /\ calls[g].status = "fulfilled"
    /\ \E i, j \in 1..Len(log) :
          /\ i < j
          /\ log[i].call = s /\ log[i].ok /\ log[i].name \in {"set", "setex"}
          /\ log[j].call = g /\ log[j].ok /\ log[j].name = "get"
          /\ \A m \in (i + 1)..(j - 1) :
                log[m].key = log[i].key => log[m].name = "get" \/ ~log[m].ok

KeysOf(c) ==
    LET r == calls[c].val.results
    IN  IF calls[c].op = "getStatValue"
        THEN UNION {{r[i][j] : j \in 1..Len(r[i])} : i \in 1..Len(r)}
        ELSE {r[i] : i \in 1..Len(r)}

\* a scan that was called with a wildcard in the name
WildcardScan(c) ==
    /\ \/ calls[c].op = "getStatValue" /\ includes(calls[c].arg.name, "*")
       \/ calls[c].op = "counterKeys" /\ includes(calls[c].arg, "*")

\* C4: with a fixed keyspace, a scan of a wildcard pattern returns the number of
\* present keys that match the pattern, and exactly those keys.
C4_ScanComplete ==
    \A c \in Calls :
        WildcardScan(c) /\ calls[c].status = "fulfilled" =>
            LET matching == {k \in DOMAIN store : globMatch(calls[c].key, k)}
            IN  /\ calls[c].val.count = Cardinality(matching)
                /\ KeysOf(c) = matching

\* C5: on a cluster, every scan with a wildcard name fails with an error: it
\* neither returns a result nor starts a stream.
C5_ClusterRejects ==
    \A c \in Calls :
        isCluster /\ calls[c].op = "counterKeys" /\ includes(calls[c].arg, "*") =>
            calls[c].status = "rejected"

\* the commands call c has written to the connection
Issued(c) ==
    {i \in 1..Len(queue) : queue[i].call = c} \cup {i \in 1..Len(log) : log[i].call = c}

\* C6: a mutating operation whose resolved key contains '*' fails and issues no
\* command to the store.
C6_WildcardRejected ==
    \A c \in Calls :
        calls[c].op \in {"incrStatValue", "incr"} /\ includes(calls[c].key, "*") =>
            calls[c].status = "rejected" /\ Issued(c) = {}

\* Redis has executed the increment of call c
IncrApplied(c) ==
    \E i \in 1..Len(log) : log[i].call = c /\ log[i].name = "incrby" /\ log[i].ok

\* the connection failed an expire meant for key k
ExpireFailed(k) ==
    \E i \in 1..Len(log) : log[i].key = k /\ log[i].name = "expire" /\ ~log[i].ok

\* C7: after an increment with ttlSeconds > 0 of a fresh counter, with nothing
\* else than such increments touching the key, the key is eventually evicted and
\* stays absent (a get finds nothing), unless the connection failed the command
\* that sets the expiry.
C7_Expiry ==
    \A c \in Calls :
        IncrApplied(c) ~> [](calls[c].key \notin DOMAIN store \/ ExpireFailed(calls[c].key))

\* an increment with an expiry was applied, and Redis has evicted its key
C7_Witness ==
    /\ IncrApplied(1)
    /\ calls[1].key \notin DOMAIN store
    /\ ~ExpireFailed(calls[1].key)
    /\ \E i \in 1..Len(log) : log[i].name = "evict" /\ log[i].key = calls[1].key

\* what hgetall returns for field f of key k
ReadField(st, k, f) ==
    LET all == ExecCmd(Cmd(0, "hgetall", k, 0, JUndef, <<>>, "adopt"), st, <<>>).reply
    IN  IF all.t = "object" /\ f \in DOMAIN all.fields THEN all.fields[f] ELSE JNull

\* C8: the hash increment of a call changes, of the fields that readAllFields
\* returns for its key, only the field the call named, whatever other calls
\* have done to the other fields.
C8_HashIsolation ==
    [][\A f \in HFields :
          /\ queue # <<>>
          /\ Head(queue).name = "hincrby"
          /\ Len(log') = Len(log) + 1
          /\ log'[Len(log')].name = "hincrby"
          /\ f # calls[Head(queue).call].field
          => ReadField(store', Head(queue).key, f) = ReadField(store, Head(queue).key, f)]_vars

\* both fields of one hash counter have been incremented
C8_Witness ==
    \E k \in DOMAIN store :
        /\ store[k].t = "hash"
        /\ DOMAIN store[k].h = HFields
        /\ Len(log) = MaxCalls

\* C9: when a command or a scan stream of an awaited operation fails, the result
\* of the operation settles as a failure.
C9_ErrorsPropagate ==
    \A c \in Calls :
        /\ ~calls[c].fast
        /\ \/ calls[c].pc = "streamError"
           \/ \E i \in 1..Len(log) : log[i].call = c /\ ~log[i].ok
        => calls[c].status = "rejected"

\* the keys of instance i: prefix:*:*:i
OfInstance(i) ==
    {k \in DOMAIN store :
        globMatch(statKeyPrefix \o <<":", "stat", ":", "*", ":", "*", ":">> \o i, k)}

\* C10: once removeAllKeysForInstance has run to the end of its scan, no key of
\* the instance that existed at the start remains.
C10_InstanceTornDown ==
    \A c \in Calls :
        /\ calls[c].op = "removeAllKeysForInstance"
        /\ calls[c].pc \in {"done", "uncaught"}
        /\ queue = <<>>
        => OfInstance(calls[c].arg) \cap calls[c].snapshot = {}

\* the connection failed a command of call c
Failed(c) == \E i \in 1..Len(log) : log[i].call = c /\ ~log[i].ok

\* C11: a delete that the connection did not fail has removed its key from the
\* store with one DEL and returns the number of keys removed, 1 or 0.
C11_DeleteRemoves ==
    \A c \in Calls :
        calls[c].op \in {"delete", "removeStatValue"} /\ calls[c].pc = "done" /\ ~Failed(c) =>
            /\ calls[c].status \in {"fulfilled", "returned"}
            /\ calls[c].val \in {Num(0), Num(1)}
            /\ \E i \in 1..Len(log) :
                  /\ log[i].call = c /\ log[i].name = "del" /\ log[i].key = calls[c].key
                  /\ calls[c].val = Num(1) <=>
                         \E j \in 1..(i - 1) :
                            /\ log[j].key = calls[c].key /\ log[j].ok
                            /\ log[j].name \in {"set", "setex"}
                            /\ \A m \in (j + 1)..(i - 1) :
                                  log[m].key = calls[c].key /\ log[m].ok => log[m].name = "get"

\* the integer in field f of hash k, 0 when there is none
FieldInt(k, f) ==
    IF k \in DOMAIN store /\ store[k].t = "hash" /\ f \in DOMAIN store[k].h
    THEN store[k].h[f] ELSE 0

HashMutators == {"incrHashField", "decrHashField", "incrHashValue", "decrHashValue"}

\* what call c is to add to its field: the amount, negated by a decrement
Signed(c) ==
    IF calls[c].op \in {"decrHashField", "decrHashValue"}
    THEN 0 - calls[c].amount ELSE calls[c].amount

RECURSIVE SumSigned(_)
SumSigned(S) ==
    IF S = {} THEN 0
    ELSE LET c == CHOOSE x \in S : TRUE IN Signed(c) + SumSigned(S \ {c})

\* C12: decrementField(id, field, n) takes n off the field as incrementField
\* adds it: once all calls on a fresh store have completed without a connection
\* failure, every field holds the sum of the amounts incremented minus the sum
\* of the amounts decremented.
C12_DecrementMirrors ==
    AllDone /\ (\A c \in Calls : ~Failed(c)) =>
        \A c \in Calls :
            calls[c].op \in HashMutators =>
                FieldInt(calls[c].key, calls[c].field) =
                    SumSigned({d \in Calls : /\ calls[d].op \in HashMutators
                                             /\ calls[d].key = calls[c].key
                                             /\ calls[d].field = calls[c].field})

\* C20: namedHashKey gives every hash identity, global or scoped, a defined key,
\* and hash identities of different names different keys (so that incrHashValue
\* on one never changes what getHashValues returns for the other).
C20_HashKeysDistinct ==
    \A c, d \in Calls :
        /\ calls[c].op \in {"incrHashValue", "decrHashValue", "getHashValues"}
        /\ calls[d].op \in {"incrHashValue", "decrHashValue", "getHashValues"}
        => /\ incrHashValue_key(calls[c].arg) # undefined
           /\ calls[c].arg.name # calls[d].arg.name => calls[c].key # calls[d].key

\* the integer a counter key, or a field of a hash key, holds in store st
HeldAt(st, cmd) ==
    IF cmd.name = "hincrby" THEN st[cmd.key].h[cmd.field] ELSE st[cmd.key].dec

\* C13: when Redis executes the add of an awaited increment or incrementField,
\* the call gets the new value: the integer the counter (or field) holds right
\* after the add.
C13_ReturnsNewValue ==
    [][\A c \in Calls :
          /\ queue # <<>>
          /\ Head(queue).call = c
          /\ Head(queue).name \in {"incrby", "hincrby"}
          /\ calls[c].op \in {"incrStatValue", "incr", "incrHashValue", "incrHashField"}
          /\ ~calls[c].fast
          /\ log' = Append(log, LogEntry(c, Head(queue).name, Head(queue).key, TRUE))
          => calls'[c].val = Num(HeldAt(store', Head(queue)))]_vars

\* C15: in fast mode a failure of the dispatched command does not show in what
\* the call returns: the call never settles as a failure.
C15_FastHidesFailure ==
    \A c \in Calls :
        calls[c].op \in {"incrStatValue", "decrStatValue"} /\ calls[c].fast =>
            calls[c].status # "rejected"

\* the key the rules of key construction give an identity: the prefix, the
\* counter type and name, and under Scoped scope the host (the machine's when none
\* is supplied) and the instance, each if there is one
RuleStatKey(a) ==
    LET prefix == <<"app", ":">> \o SYSTEM \o <<":">> \o PRODUCT \o <<":">> \o ENVIRONMENT
                      \o <<":", "stat">>
        host == IF a.host = undefined THEN systemHost ELSE a.host
        base == prefix \o <<":">> \o a.type \o <<":">> \o a.name
    IN  IF a.global THEN base
        ELSE base \o (IF Truthy(host) THEN <<":">> \o host ELSE <<>>)
                  \o (IF Truthy(a.instanceurn) THEN <<":">> \o a.instanceurn ELSE <<>>)

\* the key of the simplified variant: the prefix with cnt, the name, nothing else
RuleCounterKey(name) ==
    <<"app", ":">> \o SYSTEM \o <<":">> \o PRODUCT \o <<":">> \o ENVIRONMENT
        \o <<":", "cnt", ":">> \o name

\* C14: the keys that namedStatKey and namedCounterKey resolve are the keys of
\* the rules of key construction.
C14_KeyRules ==
    probe.stage = "resolved" =>
        /\ probe.kStat = RuleStatKey(probe.id)
        /\ probe.kCounter = RuleCounterKey(probe.name)

\* C18: for one identity, getStatValue, incrStatValue, decrStatValue,
\* setStatValue and removeStatValue address the same key.
C18_SameKey ==
    probe.stage = "resolved" =>
        /\ probe.kGet = probe.kIncr
        /\ probe.kDecr = probe.kIncr
        /\ probe.kSet = probe.kIncr
        /\ probe.kRemove = probe.kIncr

\* a required connection field or a required namespace field is missing
LacksRequired(service, cfg) ==
    IF service = "StatsService"
    THEN ~(cfg.config /\ cfg.REDIS /\ cfg.URL /\ cfg.PORT
             /\ cfg.SYSTEM /\ cfg.PRODUCT /\ cfg.ENVIRONMENT)
    ELSE ~(cfg.options /\ cfg.system /\ cfg.product /\ cfg.environment)

\* C16: construction with a configuration that lacks a required connection or
\* namespace field fails with an error and creates no store client.
C16_ConfigValidated ==
    probe.stage = "constructed" /\ LacksRequired(probe.service, probe.cfg) =>
        probe.made.threw /\ ~probe.made.client

\* C19: in every scan result, results is a flat sequence with one entry per key
\* found, whatever the number of pages: it has exactly count entries.
C19_FlatResults ==
    \A c \in Calls :
        /\ calls[c].op \in {"getStatValue", "counterKeys"}
        /\ calls[c].status = "fulfilled"
        /\ "results" \in DOMAIN calls[c].val
        => /\ calls[c].val.count = Cardinality(KeysOf(c))
           /\ calls[c].val.count = Len(calls[c].val.results)

\* entry e, of the log or of the queue, is the arithmetic command of the call
\* and key of the expire x
ArithmeticOf(e, x) ==
    e.call = x.call /\ e.key = x.key /\ e.name \in {"incrby", "decrby"}

\* C17: the expire of an increment or decrement with ttlSeconds is a command of
\* its own that reaches Redis after the arithmetic command of the same call,
\* never before it.
C17_TwoStep ==
    /\ \A i \in 1..Len(log) :
          log[i].name = "expire" => \E j \in 1..(i - 1) : ArithmeticOf(log[j], log[i])
    /\ \A i \in 1..Len(queue) :
          queue[i].name = "expire" =>
              \/ \E j \in 1..(i - 1) : ArithmeticOf(queue[j], queue[i])
              \/ \E j \in 1..Len(log) : ArithmeticOf(log[j], queue[i])

\* the caller died between the two commands: the counter holds the new value
\* and has no expiry, and no expire is on its way
C17_Witness ==
    \E c \in Calls :
        /\ calls[c].pc = "crashed"
        /\ calls[c].op \in {"incr", "incrStatValue"}
        /\ calls[c].expiry # 0
        /\ queue = <<>>
        /\ \E i \in 1..Len(log) : log[i].call = c /\ log[i].name = "incrby" /\ log[i].ok
        /\ calls[c].key \in DOMAIN store
        /\ store[calls[c].key] = DecStr(calls[c].amount)
        /\ calls[c].key \notin DOMAIN ttl
        /\ \A i \in 1..Len(log) : log[i].name # "expire"

====
